---- MODULE Spec2Model ----
(***************************************************************************)
(* Model of the Markdown question extractor of extract_questions.py.       *)
(*                                                                         *)
(* Text is modelled character by character: a string is a sequence of      *)
(* one-character strings, so that re.split, str.strip, str.split,          *)
(* str.startswith, str.lower and slicing are computed as Python computes   *)
(* them.  The character "^" stands for the arrow U+2B06 of the navigation  *)
(* link.                                                                   *)
(***************************************************************************)
EXTENDS Integers, Sequences, FiniteSets, TLC

VARIABLES readme, content, question_sections, questions, section_of, pc

\* the run of extract_questions.py after the extraction, and the agent's load
VARIABLES main_i, calls, csvfile, questions_data

parseVars == <<readme, content, question_sections, section_of>>

\* a caller of the agent of aws_quiz_agent.py: its last call of
\* get_explanation_for_question, and a run of save_explanations_to_file
VARIABLES result, save_i, all_explanations, outfile, writes

pipeVars == <<main_i, calls, csvfile, questions_data>>

\* the session of interactive_quiz.py: what the last menu action printed, how
\* the session ended, the read that was interrupted, and the values the
\* menu actions keep between their reads
VARIABLES outcome, how, menu_shown, interrupted_at, session, topic_hits, num_questions

agentVars == <<result, save_i, all_explanations, outfile, writes>>

\* a run of the quiz: the questions, the number of the one presented, its
\* shuffled presentation, the answer typed, its grade, and the score
VARIABLES quiz_questions, qn, shuffled, submitted, graded, correct_count

browserVars == <<outcome, how, menu_shown, interrupted_at, session, topic_hits, num_questions>>

quizVars == <<quiz_questions, qn, shuffled, submitted, graded, correct_count>>

\* the variables of the terminal sessions
sessionVars == <<browserVars, quizVars>>

laterVars == <<agentVars, sessionVars>>

vars == <<readme, content, question_sections, questions, section_of, pc,
          main_i, calls, csvfile, questions_data,
          result, save_i, all_explanations, outfile, writes,
          outcome, how, menu_shown, interrupted_at, session, topic_hits,
          num_questions,
          quiz_questions, qn, shuffled, submitted, graded, correct_count>>

(***************************************************************************)
(* Bounds                                                                  *)
(***************************************************************************)
\* number of lines of a README after its first line
MaxLines == 4

\* the question_index arguments run over -MaxIndex..MaxIndex
MaxIndex == 3

(***************************************************************************)
(* Python string primitives                                                *)
(***************************************************************************)
NL == "\n"

CR == "\r"

Whitespace == {" ", NL, CR}

\* s[i:] with a 0-based Python index i
SliceFrom(s, i) == IF i >= Len(s) THEN <<>> ELSE SubSeq(s, i + 1, Len(s))

\* str.startswith
startswith(s, p) ==
    /\ Len(p) <= Len(s)
    /\ \A k \in 1..Len(p) : s[k] = p[k]

\* the pattern p occurs in s at (1-based) position i
MatchAt(s, i, p) ==
    /\ i + Len(p) - 1 <= Len(s)
    /\ \A k \in 1..Len(p) : s[i + k - 1] = p[k]

\* str.strip(): drop leading and trailing whitespace
strip(s) ==
    LET solid == {i \in 1..Len(s) : s[i] \notin Whitespace}
    IN  IF solid = {} THEN <<>>
        ELSE LET lo == CHOOSE i \in solid : \A j \in solid : i <= j
                 hi == CHOOSE i \in solid : \A j \in solid : j <= i
             IN  SubSeq(s, lo, hi)

\* str.lower() on the letters the documents use
LowerChar(c) ==
    CASE c = "P" -> "p"
      [] c = "Q" -> "q"
      [] c = "A" -> "a"
      [] c = "B" -> "b"
      [] c = "C" -> "c"
      [] c = "H" -> "h"
      [] c = "X" -> "x"
      [] c = "I" -> "i"
      [] c = "S" -> "s"
      [] c = "Y" -> "y"
      [] c = "N" -> "n"
      [] c = "T" -> "t"
      [] OTHER -> c

lower(s) == [i \in 1..Len(s) |-> LowerChar(s[i])]

RECURSIVE SplitFrom(_, _, _, _)
\* pieces of s from position start on, cut at the non-overlapping
\* occurrences of pat found scanning left to right from position i
SplitFrom(s, pat, start, i) ==
    IF i > Len(s) THEN << SubSeq(s, start, Len(s)) >>
    ELSE IF MatchAt(s, i, pat)
         THEN << SubSeq(s, start, i - 1) >>
              \o SplitFrom(s, pat, i + Len(pat), i + Len(pat))
         ELSE SplitFrom(s, pat, start, i + 1)

\* str.split('\n')
split_lines(s) == SplitFrom(s, << NL >>, 1, 1)

(***************************************************************************)
(* extract_questions_from_readme                                           *)
(***************************************************************************)
\* r'\n### '
HeaderPattern == << NL, "#", "#", "#", " " >>

Unchecked == << "-", " ", "[", " ", "]" >>

Checked == << "-", " ", "[", "x", "]" >>

NavLink == << "[", "^", " ", "B", "a", "c", "k", " ", "t", "o", " ", "T", "o", "p", "]" >>

NavLinkBold == << "*", "*" >> \o NavLink

Placeholder == << "p", "l", "a", "c", "e", "h", "o", "l", "d", "e", "r" >>

RECURSIVE SplitAnyLevel(_, _, _)
SplitAnyLevel(s, start, i) ==
    IF i > Len(s) THEN << SubSeq(s, start, Len(s)) >>
    ELSE IF MatchAt(s, i, HeaderPattern)
         THEN << SubSeq(s, start, i - 1) >> \o SplitAnyLevel(s, i + 5, i + 5)
         ELSE IF MatchAt(s, i, << NL, "#", "#", "#", "#", " " >>)
              THEN << SubSeq(s, start, i - 1) >> \o SplitAnyLevel(s, i + 6, i + 6)
              ELSE SplitAnyLevel(s, start, i + 1)

\* the split taking a level-4 heading line for a question boundary as well
split_sections_anylevel(s) == SplitAnyLevel(s, 1, 1)

\* re.split(r'\n### ', content)
split_sections(s) == SplitFrom(s, HeaderPattern, 1, 1)

\* the lines the answer loop skips: empty lines and navigation links
IsSkipped(line) ==
    \/ line = <<>>
    \/ startswith(line, NavLink)
    \/ startswith(line, NavLinkBold)

IsAnswerChoice(line) == startswith(line, Unchecked) \/ startswith(line, Checked)

IsCorrect(line) == startswith(line, Checked)

choice_text(line) == strip(SliceFrom(line, 5))

RECURSIVE answer_loop_anycase(_, _, _)
\* the answer loop with the checkbox markers compared ignoring case
answer_loop_anycase(lines, i, acc) ==
    IF i > Len(lines) THEN acc
    ELSE LET line == strip(lines[i])
         IN  IF IsSkipped(line) THEN answer_loop_anycase(lines, i + 1, acc)
             ELSE IF IsAnswerChoice(lower(line))
                  THEN answer_loop_anycase(lines, i + 1,
                         [answer_choices |-> Append(acc.answer_choices, choice_text(line)),
                          correct_answers |->
                             IF IsCorrect(lower(line))
                             THEN Append(acc.correct_answers, choice_text(line))
                             ELSE acc.correct_answers])
                  ELSE answer_loop_anycase(lines, i + 1, acc)

RECURSIVE answer_loop(_, _, _)
\* for line in lines[1:]: the pair (answer_choices, correct_answers)
answer_loop(lines, i, acc) ==
    IF i > Len(lines) THEN acc
    ELSE LET line == strip(lines[i])
         IN  IF IsSkipped(line) THEN answer_loop(lines, i + 1, acc)
             ELSE IF IsAnswerChoice(line)
                  THEN answer_loop(lines, i + 1,
                         [answer_choices |-> Append(acc.answer_choices, choice_text(line)),
                          correct_answers |->
                             IF IsCorrect(line)
                             THEN Append(acc.correct_answers, choice_text(line))
                             ELSE acc.correct_answers])
                  ELSE answer_loop(lines, i + 1, acc)

\* lines = section.strip().split('\n')
section_lines(section) == split_lines(strip(section))

\* the question taken as every line before the first answer choice
question_text_stem(lines) ==
    LET choices == {i \in 2..Len(lines) : IsAnswerChoice(strip(lines[i]))}
        last    == IF choices = {} THEN Len(lines)
                   ELSE (CHOOSE i \in choices : \A k \in choices : i <= k) - 1
        RECURSIVE join(_)
        join(i) == IF i = last THEN lines[i] ELSE lines[i] \o << NL >> \o join(i + 1)
    IN  strip(join(1))

\* question_text = lines[0].strip()
question_text(lines) == strip(lines[1])

\* if question_text.lower() == 'placeholder' or not question_text: continue
IsPlaceholderOrEmpty(qt) == lower(qt) = Placeholder \/ qt = <<>>

\* every block with a question text is added
ShouldAddUnfiltered(answer_choices, correct_answers) == TRUE

\* the blocks with answer choices are added, with or without a correct one
ShouldAddChoicesOnly(answer_choices, correct_answers) == answer_choices # <<>>

\* if answer_choices and correct_answers
ShouldAdd(answer_choices, correct_answers) ==
    answer_choices # <<>> /\ correct_answers # <<>>

\* one iteration of the loop over question_sections[1:]: the questions it appends
process_section(section) ==
    IF strip(section) = <<>> THEN <<>>
    ELSE LET lines == section_lines(section)
             qt    == question_text(lines)
         IN  IF IsPlaceholderOrEmpty(qt) THEN <<>>
             ELSE LET r == answer_loop(lines, 2,
                             [answer_choices |-> <<>>, correct_answers |-> <<>>])
                  IN  IF ShouldAdd(r.answer_choices, r.correct_answers)
                      THEN << [QUESTION |-> qt,
                               ANSWER_CHOICES |-> r.answer_choices,
                               ANSWERS |-> r.correct_answers,
                               EXPLANATIONS |-> <<>>] >>
                      ELSE <<>>

RECURSIVE sections_loop_break(_, _, _)
\* the loop over the sections leaving at the first section it skips
sections_loop_break(sections, k, acc) ==
    IF k > Len(sections) THEN acc
    ELSE LET qs == process_section(sections[k])
         IN  IF qs = <<>> THEN acc
             ELSE sections_loop_break(sections, k + 1,
                    [questions |-> acc.questions \o qs,
                     src |-> acc.src \o [i \in 1..Len(qs) |-> k - 1]])

RECURSIVE sections_loop(_, _, _)
\* for section in question_sections[1:]; acc.src records, for each appended
\* question, the number (1 = first candidate block) of the section it came from
sections_loop(sections, k, acc) ==
    IF k > Len(sections) THEN acc
    ELSE LET qs == process_section(sections[k])
         IN  sections_loop(sections, k + 1,
                [questions |-> acc.questions \o qs,
                 src |-> acc.src \o [i \in 1..Len(qs) |-> k - 1]])

extract_questions_from_readme(text) ==
    sections_loop(split_sections(text), 2, [questions |-> <<>>, src |-> <<>>])

(***************************************************************************)
(* AWSQuizAgent of extract_questions.py: get_explanation_for_question      *)
(***************************************************************************)
\* str(e) of the IndexError of a list subscript
IndexErrorMsg == << "l", "i", "s", "t", " ", "i", "n", "d", "e", "x", " ", "o", "u", "t", " ", "o", "f", " ", "r", "a", "n", "g", "e" >>

\* str(e) of the AttributeError of None.strip()
NoneStripMsg == << "'", "N", "o", "n", "e", "T", "y", "p", "e", "'", " ", "o", "b", "j", "e", "c", "t", " ", "h", "a", "s", " ", "n", "o", " ", "a", "t", "t", "r", "i", "b", "u", "t", "e", " ", "'", "s", "t", "r", "i", "p", "'" >>

FailedPrefix == << "F", "a", "i", "l", "e", "d", " ", "t", "o", " ", "g", "e", "t", " ", "e", "x", "p", "l", "a", "n", "a", "t", "i", "o", "n", ":", " " >>

ErrorPrefix == << "E", "r", "r", "o", "r", ":", " " >>

\* what client.chat.completions.create can do: raise, or answer with a
\* message whose content is None, a JSON dictionary or other text; dumped is
\* json.dumps(json.loads(text)) where text is JSON
LLMResponses ==
    { [kind |-> "raise", text |-> << "t", "i", "m", "e", "o", "u", "t" >>, dumped |-> <<>>],
      [kind |-> "none", text |-> <<>>, dumped |-> <<>>],
      [kind |-> "json", text |-> << " ", "{", "\"", "A", "\"", ":", "\"", "x", "\"", "}", "\n" >>, dumped |-> << "{", "\"", "A", "\"", ":", " ", "\"", "x", "\"", "}" >>],
      [kind |-> "text", text |-> << "x", ",", "\r", "\n", "\"", "y", " " >>, dumped |-> <<>>] }

Returned(v) == [raised |-> FALSE, value |-> v]

Raised(e) == [raised |-> TRUE, value |-> e]

\* _create_explanation_prompt: the parts of the question the prompt quotes;
\* the subscripts [0] and [1] of ANSWER_CHOICES raise IndexError when the
\* list is shorter
create_explanation_prompt(question_data) ==
    IF Len(question_data.ANSWER_CHOICES) < 2 THEN Raised(IndexErrorMsg)
    ELSE Returned([QUESTION |-> question_data.QUESTION,
                   ANSWER_CHOICES |-> question_data.ANSWER_CHOICES,
                   ANSWERS |-> question_data.ANSWERS,
                   first |-> question_data.ANSWER_CHOICES[1],
                   second |-> question_data.ANSWER_CHOICES[2]])

\* the try block: the call of the model and the handling of its answer
explain_with_model(llm) ==
    CASE llm.kind = "raise" -> Returned(FailedPrefix \o llm.text)
      [] llm.kind = "none"  -> Returned(FailedPrefix \o NoneStripMsg)
      [] llm.kind = "json"  -> Returned(llm.dumped)
      [] OTHER              -> Returned(strip(llm.text))

\* get_explanation_for_question(question_data) with the given behaviour of
\* the model: the value returned or the exception raised to the caller
get_explanation_for_question(question_data, llm) ==
    LET prompt == create_explanation_prompt(question_data)
    IN  IF prompt.raised THEN prompt ELSE explain_with_model(llm)

(***************************************************************************)
(* json.dumps and json.loads on lists of strings                           *)
(***************************************************************************)
QUOTE == "\""

BACKSLASH == "\\"

\* the escape json.dumps(..., ensure_ascii=False) writes for a character
JsonEscape(c) ==
    CASE c = QUOTE     -> << BACKSLASH, QUOTE >>
      [] c = BACKSLASH -> << BACKSLASH, BACKSLASH >>
      [] c = NL        -> << BACKSLASH, "n" >>
      [] c = CR        -> << BACKSLASH, "r" >>
      [] OTHER         -> << c >>

RECURSIVE JsonEscapeFrom(_, _, _)
\* the escapes of the characters lo..hi of s, one after the other
JsonEscapeFrom(s, lo, hi) ==
    IF lo > hi THEN <<>>
    ELSE IF lo = hi THEN JsonEscape(s[lo])
    ELSE LET mid == (lo + hi) \div 2
         IN  JsonEscapeFrom(s, lo, mid) \o JsonEscapeFrom(s, mid + 1, hi)

json_dumps_string(s) == << QUOTE >> \o JsonEscapeFrom(s, 1, Len(s)) \o << QUOTE >>

RECURSIVE JsonItemsFrom(_, _)
JsonItemsFrom(l, i) ==
    IF i > Len(l) THEN <<>>
    ELSE IF i = Len(l) THEN json_dumps_string(l[i])
         ELSE json_dumps_string(l[i]) \o << ",", " " >> \o JsonItemsFrom(l, i + 1)

\* json.dumps(l, ensure_ascii=False) of a list of strings
json_dumps(l) == << "[" >> \o JsonItemsFrom(l, 1) \o << "]" >>

JsonFail == [ok |-> FALSE, value |-> <<>>, next |-> 0]

RECURSIVE JsonSkipSpace(_, _)
JsonSkipSpace(s, i) ==
    IF i <= Len(s) /\ s[i] \in Whitespace THEN JsonSkipSpace(s, i + 1) ELSE i

RECURSIVE JsonString(_, _, _)
\* the string whose opening quote precedes position i
JsonString(s, i, acc) ==
    IF i > Len(s) THEN JsonFail
    ELSE IF s[i] = QUOTE THEN [ok |-> TRUE, value |-> acc, next |-> i + 1]
    ELSE IF s[i] = BACKSLASH
         THEN IF i + 1 > Len(s) THEN JsonFail
              ELSE CASE s[i + 1] = QUOTE     -> JsonString(s, i + 2, Append(acc, QUOTE))
                     [] s[i + 1] = BACKSLASH -> JsonString(s, i + 2, Append(acc, BACKSLASH))
                     [] s[i + 1] = "n"       -> JsonString(s, i + 2, Append(acc, NL))
                     [] s[i + 1] = "r"       -> JsonString(s, i + 2, Append(acc, CR))
                     [] OTHER                -> JsonFail
    ELSE IF s[i] \in {NL, CR} THEN JsonFail
    ELSE JsonString(s, i + 1, Append(acc, s[i]))

RECURSIVE JsonItems(_, _, _)
\* the items of a list from position i on, where an item is expected
JsonItems(s, i, acc) ==
    IF i > Len(s) \/ s[i] # QUOTE THEN JsonFail
    ELSE LET item == JsonString(s, i + 1, <<>>)
         IN  IF ~item.ok THEN JsonFail
             ELSE LET k == JsonSkipSpace(s, item.next)
                  IN  IF k > Len(s) THEN JsonFail
                      ELSE IF s[k] = "]"
                           THEN [ok |-> TRUE, value |-> Append(acc, item.value), next |-> k + 1]
                      ELSE IF s[k] = ","
                           THEN JsonItems(s, JsonSkipSpace(s, k + 1), Append(acc, item.value))
                      ELSE JsonFail

\* json.loads(s) where a list of strings is expected: ok is FALSE where
\* json.loads raises (None or text that is no JSON) or yields no such list
json_loads(s) ==
    LET i == JsonSkipSpace(s, 1)
    IN  IF i > Len(s) \/ s[i] # "[" THEN JsonFail
        ELSE LET k == JsonSkipSpace(s, i + 1)
                 r == IF k <= Len(s) /\ s[k] = "]"
                      THEN [ok |-> TRUE, value |-> <<>>, next |-> k + 1]
                      ELSE JsonItems(s, k, <<>>)
             IN  IF r.ok /\ JsonSkipSpace(s, r.next) > Len(s) THEN r ELSE JsonFail

(***************************************************************************)
(* csv.DictWriter and csv.DictReader, the files they write and read        *)
(***************************************************************************)
NoFile == [exists |-> FALSE, text |-> <<>>]

File(t) == [exists |-> TRUE, text |-> t]

\* fieldnames = ['QUESTION', 'ANSWER_CHOICES', 'ANSWERS', 'EXPLANATIONS']
F_QUESTION == << "Q", "U", "E", "S", "T", "I", "O", "N" >>

F_ANSWER_CHOICES == << "A", "N", "S", "W", "E", "R", "_", "C", "H", "O", "I", "C", "E", "S" >>

F_ANSWERS == << "A", "N", "S", "W", "E", "R", "S" >>

F_EXPLANATIONS == << "E", "X", "P", "L", "A", "N", "A", "T", "I", "O", "N", "S" >>

fieldnames == << F_QUESTION, F_ANSWER_CHOICES, F_ANSWERS, F_EXPLANATIONS >>

\* QUOTE_MINIMAL: the fields the writer puts between quotes
NeedsQuotes(f) == \E i \in 1..Len(f) : f[i] \in {",", QUOTE, CR, NL}

RECURSIVE DoubleQuotes(_, _, _)
\* the characters lo..hi of a quoted field, each quote written twice
DoubleQuotes(f, lo, hi) ==
    IF lo > hi THEN <<>>
    ELSE IF lo = hi THEN (IF f[lo] = QUOTE THEN << QUOTE, QUOTE >> ELSE << f[lo] >>)
    ELSE LET mid == (lo + hi) \div 2
         IN  DoubleQuotes(f, lo, mid) \o DoubleQuotes(f, mid + 1, hi)

csv_field(f) ==
    IF NeedsQuotes(f) THEN << QUOTE >> \o DoubleQuotes(f, 1, Len(f)) \o << QUOTE >> ELSE f

RECURSIVE CsvJoin(_, _)
CsvJoin(row, i) ==
    IF i > Len(row) THEN <<>>
    ELSE IF i = Len(row) THEN csv_field(row[i])
         ELSE csv_field(row[i]) \o << "," >> \o CsvJoin(row, i + 1)

\* writer.writerow: the fields, then the line terminator '\r\n'
writerow(row) == CsvJoin(row, 1) \o << CR, NL >>

RECURSIVE ReprItemsFrom(_, _)
ReprItemsFrom(l, i) ==
    IF i > Len(l) THEN <<>>
    ELSE IF i = Len(l) THEN << "'" >> \o l[i] \o << "'" >>
         ELSE << "'" >> \o l[i] \o << "'", ",", " " >> \o ReprItemsFrom(l, i + 1)

\* the row with the lists written by str() instead of json.dumps
csv_row_str(question) ==
    << question.QUESTION,
       << "[" >> \o ReprItemsFrom(question.ANSWER_CHOICES, 1) \o << "]" >>,
       << "[" >> \o ReprItemsFrom(question.ANSWERS, 1) \o << "]" >>,
       question.EXPLANATIONS >>

\* the row save_to_csv builds for a question
csv_row(question) ==
    << question.QUESTION,
       json_dumps(question.ANSWER_CHOICES),
       json_dumps(question.ANSWERS),
       question.EXPLANATIONS >>

RECURSIVE WriteRows(_, _)
WriteRows(qs, i) ==
    IF i > Len(qs) THEN <<>> ELSE writerow(csv_row(qs[i])) \o WriteRows(qs, i + 1)

\* save_to_csv: the text of the file, written with newline=''
save_to_csv(qs) == File(writerow(fieldnames) \o WriteRows(qs, 1))

\* the text of a file opened for reading with the default newline=None:
\* '\r\n' and '\r' are read as '\n'
UniversalNewlines(t) ==
    LET Dropped == ""
        marked == [i \in 1..Len(t) |->
                     IF t[i] = CR THEN NL
                     ELSE IF t[i] = NL /\ i > 1 /\ t[i - 1] = CR THEN Dropped
                     ELSE t[i]]
        Kept(c) == c # Dropped
    IN  SelectSeq(marked, Kept)

\* what the reader makes of the text besides the characters of the fields:
\* the end of a field, the end of a record, and a line with no field at all
FieldEnd == "FIELD_END"

RecordEnd == "RECORD_END"

EmptyRecord == "EMPTY_RECORD"

\* parse_process_char of csv.reader: the state after character c in state st
\* and what the character adds
CsvStep(st, c) ==
    LET Add(ch, state) == [st |-> state, out |-> << ch >>]
        Skip(state)    == [st |-> state, out |-> <<>>]
        EndOfField     == [st |-> "START_FIELD", out |-> << FieldEnd >>]
        EndOfRecord    == [st |-> "START_RECORD", out |-> << RecordEnd >>]
    IN  CASE st = "START_RECORD" ->
               IF c = NL THEN [st |-> "START_RECORD", out |-> << EmptyRecord >>]
               ELSE IF c = QUOTE THEN Skip("IN_QUOTED_FIELD")
               ELSE IF c = "," THEN EndOfField
               ELSE Add(c, "IN_FIELD")
          [] st = "START_FIELD" ->
               IF c = NL THEN EndOfRecord
               ELSE IF c = QUOTE THEN Skip("IN_QUOTED_FIELD")
               ELSE IF c = "," THEN EndOfField
               ELSE Add(c, "IN_FIELD")
          [] st = "IN_FIELD" ->
               IF c = NL THEN EndOfRecord
               ELSE IF c = "," THEN EndOfField
               ELSE Add(c, "IN_FIELD")
          [] st = "IN_QUOTED_FIELD" ->
               IF c = QUOTE THEN Skip("QUOTE_IN_QUOTED_FIELD")
               ELSE Add(c, "IN_QUOTED_FIELD")
          [] OTHER ->
               IF c = QUOTE THEN Add(QUOTE, "IN_QUOTED_FIELD")
               ELSE IF c = "," THEN EndOfField
               ELSE IF c = NL THEN EndOfRecord
               ELSE Add(c, "IN_FIELD")

RECURSIVE CsvScan(_, _, _, _)
\* the reader over the characters lo..hi of t (lo <= hi), entered in state st
CsvScan(t, lo, hi, st) ==
    IF lo = hi THEN CsvStep(st, t[lo])
    ELSE LET mid == (lo + hi) \div 2
             l == CsvScan(t, lo, mid, st)
             r == CsvScan(t, mid + 1, hi, l.st)
         IN  [out |-> l.out \o r.out, st |-> r.st]

\* the whole text; its end also ends a record that has begun
CsvTokens(t) ==
    IF t = <<>> THEN <<>>
    ELSE LET r == CsvScan(t, 1, Len(t), "START_RECORD")
         IN  IF r.st = "START_RECORD" THEN r.out ELSE r.out \o << RecordEnd >>

\* the positions of the marks in s, in a sequence, in increasing order
MarksIn(s, marks) ==
    LET at == {i \in 1..Len(s) : s[i] \in marks}
    IN  [k \in 1..Cardinality(at) |->
            CHOOSE p \in at : Cardinality({q \in at : q < p}) = k - 1]

\* the fields of a record, given what the reader made of it
CsvFields(rec) ==
    LET ends == MarksIn(rec, {FieldEnd})
    IN  [k \in 1..(Len(ends) + 1) |->
            SubSeq(rec, IF k = 1 THEN 1 ELSE ends[k - 1] + 1,
                        IF k > Len(ends) THEN Len(rec) ELSE ends[k] - 1)]

\* the records of the text, each the list of its fields
CsvRecords(t) ==
    LET toks == CsvTokens(t)
        ends == MarksIn(toks, {RecordEnd, EmptyRecord})
    IN  [k \in 1..Len(ends) |->
            IF toks[ends[k]] = EmptyRecord THEN <<>>
            ELSE CsvFields(SubSeq(toks, IF k = 1 THEN 1 ELSE ends[k - 1] + 1, ends[k] - 1))]

csv_reader(t) == CsvRecords(t)

\* row[name] of a DictReader row: absent is TRUE where the header has no such
\* field (KeyError) or the row is too short (the value is None)
DictGet(header, row, name) ==
    LET at == {k \in 1..Len(header) : header[k] = name}
    IN  IF at = {} THEN [absent |-> TRUE, value |-> <<>>]
        ELSE LET k == CHOOSE x \in at : \A y \in at : y <= x
             IN  IF k > Len(row) THEN [absent |-> TRUE, value |-> <<>>]
                 ELSE [absent |-> FALSE, value |-> row[k]]

(***************************************************************************)
(* AWSQuizAgent._load_questions of aws_quiz_agent.py                       *)
(***************************************************************************)
RECURSIVE LoadRows(_, _, _, _)
\* 'for row in reader' inside the try block: an exception ends the loading
\* and keeps the questions appended so far
LoadRows(header, rows, i, acc) ==
    IF i > Len(rows) THEN acc
    ELSE IF rows[i] = <<>> THEN LoadRows(header, rows, i + 1, acc)
    ELSE LET q  == DictGet(header, rows[i], F_QUESTION)
             ac == DictGet(header, rows[i], F_ANSWER_CHOICES)
             an == DictGet(header, rows[i], F_ANSWERS)
         IN  IF q.absent /\ \A k \in 1..Len(header) : header[k] # F_QUESTION THEN acc
             ELSE IF ac.absent \/ ~json_loads(ac.value).ok THEN acc
             ELSE IF an.absent \/ ~json_loads(an.value).ok THEN acc
             ELSE LoadRows(header, rows, i + 1,
                     Append(acc, [question |-> q.value,
                                  answer_choices |-> json_loads(ac.value).value,
                                  correct_answers |-> json_loads(an.value).value]))

\* _load_questions: self.questions_data after the constructor
load_questions(file) ==
    IF ~file.exists THEN <<>>
    ELSE LET rows == csv_reader(UniversalNewlines(file.text))
         IN  IF rows = <<>> THEN <<>>
             ELSE LoadRows(rows[1], rows, 2, <<>>)

(***************************************************************************)
(* AWSQuizAgent of aws_quiz_agent.py: get_explanation_for_question         *)
(***************************************************************************)
MsgNotFound == "Question not found"

MsgNeedArgument == "Please provide either question_index or search_text"

MsgFailed == "Failed to get explanation"

MsgIndexError == "list index out of range"

\* the dictionary {"error": msg}; beside it, what the call did: the position
\* of the question it selected (0: none) and whether it called the model
ErrorRecord(msg, sel, called) ==
    [raised |-> FALSE, error |-> msg, selected |-> sel, called |-> called,
     question |-> <<>>, answer_choices |-> <<>>, correct_answers |-> <<>>,
     explanation |-> ""]

\* the dictionary with the question and the explanation of the model
ExplanationRecord(q, sel, text) ==
    [raised |-> FALSE, error |-> "", selected |-> sel, called |-> TRUE,
     question |-> q.question, answer_choices |-> q.answer_choices,
     correct_answers |-> q.correct_answers, explanation |-> text]

\* the IndexError of self.questions_data[question_index]
RaisedIndexError ==
    [raised |-> TRUE, error |-> MsgIndexError, selected |-> 0, called |-> FALSE,
     question |-> <<>>, answer_choices |-> <<>>, correct_answers |-> <<>>,
     explanation |-> ""]

\* "error" in explanation
HasError(r) == r.error # ""

\* the position of l[i] in a list l of n items for the Python index i, which
\* counts from the end where negative; 0 where l[i] raises IndexError
PyIndex(n, i) ==
    IF i >= 0 THEN (IF i < n THEN i + 1 ELSE 0)
    ELSE (IF -i <= n THEN n + i + 1 ELSE 0)

\* p in s
Contains(s, p) == \E i \in 1..(Len(s) + 1) : MatchAt(s, i, p)

\* the first question whose text holds search_text, letter case apart
find_by_text(data, search_text) ==
    LET hits == {k \in 1..Len(data) :
                    Contains(lower(data[k].question), lower(search_text))}
    IN  IF hits = {} THEN 0 ELSE CHOOSE k \in hits : \A j \in hits : k <= j

\* what client.chat.completions.create does: it answers or it raises
AgentLLM == {"answer", "failure"}

\* the try block: the call of the model for the selected question
agent_explain(q, sel, llm) ==
    IF llm = "failure" THEN ErrorRecord(MsgFailed, sel, TRUE)
    ELSE ExplanationRecord(q, sel, "explanation")

\* get_explanation_for_question(question_index, question_text): has_index is
\* 'question_index is not None', search_text is question_text, empty where
\* that is None
agent_get_explanation_for_question(data, has_index, question_index, search_text, llm) ==
    IF has_index /\ question_index < Len(data)
    THEN LET p == PyIndex(Len(data), question_index)
         IN  IF p = 0 THEN RaisedIndexError ELSE agent_explain(data[p], p, llm)
    ELSE IF search_text # <<>>
    THEN LET p == find_by_text(data, search_text)
         IN  IF p = 0 THEN ErrorRecord(MsgNotFound, 0, FALSE)
             ELSE agent_explain(data[p], p, llm)
    ELSE ErrorRecord(MsgNeedArgument, 0, FALSE)

(***************************************************************************)
(* README documents: lines with the role each plays in the Markdown        *)
(***************************************************************************)
L_H3Q == [kind |-> "h3", raw |-> << "#", "#", "#", " ", "Q" >>, text |-> << "Q" >>]

L_H3Empty == [kind |-> "h3", raw |-> << "#", "#", "#", " " >>, text |-> <<>>]

L_H3Placeholder ==
    [kind |-> "h3",
     raw |-> << "#", "#", "#", " ", "P", "l", "a", "c", "e", "h", "o", "l", "d", "e", "r" >>,
     text |-> << "P", "l", "a", "c", "e", "h", "o", "l", "d", "e", "r" >>]

L_Checked == [kind |-> "checked", raw |-> << " ", "-", " ", "[", "x", "]", " ", "A" >>, text |-> << "A" >>]

L_Unchecked ==
    [kind |-> "unchecked", raw |-> << "-", " ", "[", " ", "]", " ", " ", "B", " " >>, text |-> << "B" >>]

L_UpperX == [kind |-> "upperx", raw |-> << "-", " ", "[", "X", "]", " ", "C" >>, text |-> << "C" >>]

L_Nav == [kind |-> "nav", raw |-> NavLinkBold \o << "(", "#", ")", "*", "*" >>,
          text |-> NavLinkBold \o << "(", "#", ")", "*", "*" >>]

L_Blank == [kind |-> "blank", raw |-> <<>>, text |-> <<>>]

L_H4 == [kind |-> "h4", raw |-> << "#", "#", "#", "#", " ", "H" >>, text |-> << "#", "#", "#", "#", " ", "H" >>]

Palette == {L_H3Q, L_H3Empty, L_H3Placeholder, L_Checked, L_Unchecked,
            L_UpperX, L_Nav, L_Blank, L_H4}

FirstLines == {L_Blank, L_H3Q}

\* '### Is S3 durable?' / '- [x] Yes' / '- [ ] No', heading on the first line
ScenarioStem == << "I", "s", " ", "S", "3", " ", "d", "u", "r", "a", "b", "l", "e", "?" >>

ScenarioDoc ==
    << [kind |-> "h3", raw |-> << "#", "#", "#", " " >> \o ScenarioStem, text |-> ScenarioStem],
       [kind |-> "checked", raw |-> Checked \o << " ", "Y", "e", "s" >>, text |-> << "Y", "e", "s" >>],
       [kind |-> "unchecked", raw |-> Unchecked \o << " ", "N", "o" >>, text |-> << "N", "o" >> ] >>

Docs ==
    { << f >> \o b : f \in FirstLines,
                     b \in UNION { [1..n -> Palette] : n \in 0..MaxLines } }
    \cup { ScenarioDoc }

RECURSIVE JoinLines(_, _)
\* the text of the file: the raw lines from the i-th on, separated by newlines
JoinLines(d, i) ==
    IF i > Len(d) THEN <<>>
    ELSE IF i = Len(d) THEN d[i].raw
         ELSE d[i].raw \o << NL >> \o JoinLines(d, i + 1)

\* file.read()
FileRead(d) == JoinLines(d, 1)


\* lines whose texts carry the characters that CSV and JSON treat specially
P_H3Special == [kind |-> "h3", raw |-> << "#", "#", "#", " ", "\"", "Q", "," >>, text |-> << "\"", "Q", "," >>]

P_CheckedSpecial == [kind |-> "checked", raw |-> << "-", " ", "[", "x", "]", " ", "\"", "\\" >>, text |-> << "\"", "\\" >>]

P_UncheckedSpecial == [kind |-> "unchecked", raw |-> << "-", " ", "[", " ", "]", " ", "B", "," >>, text |-> << "B", "," >>]

P_CheckedEmpty == [kind |-> "checked", raw |-> << "-", " ", "[", "x", "]" >>, text |-> <<>>]

PipePalette == {L_H3Q, P_H3Special, L_Checked, P_CheckedSpecial, P_UncheckedSpecial, P_CheckedEmpty}

\* number of lines, after the first, of the READMEs taken through the whole run
MaxPipeLines == 4

PipeDocs ==
    { << L_Blank >> \o b : b \in UNION { [1..n -> PipePalette] : n \in 0..MaxPipeLines } }

(***************************************************************************)
(* The document as its author sees it: blocks, stems, option lines          *)
(***************************************************************************)
\* the heading lines that open the candidate blocks the parser iterates over
RecognisedHeadings(d) == {i \in 2..Len(d) : d[i].kind = "h3"}

\* every level-3 heading line of the document
AllHeadings(d) == {i \in 1..Len(d) : d[i].kind = "h3"}

NumBlocks(d) == Cardinality(RecognisedHeadings(d))

BlockStart(d, j) ==
    CHOOSE i \in RecognisedHeadings(d) :
        Cardinality({k \in RecognisedHeadings(d) : k < i}) = j - 1

BlockEnd(d, j) == IF j = NumBlocks(d) THEN Len(d) ELSE BlockStart(d, j + 1) - 1

\* the lines of the j-th candidate block, its heading line first
BlockOf(d, j) == SubSeq(d, BlockStart(d, j), BlockEnd(d, j))

IsOptionLine(l) == l.kind \in {"checked", "unchecked"}

IsCheckedLine(l) == l.kind = "checked"

TextsOf(ls) == [i \in 1..Len(ls) |-> ls[i].text]

OptionTexts(b) == TextsOf(SelectSeq(b, IsOptionLine))

CheckedTexts(b) == TextsOf(SelectSeq(b, IsCheckedLine))

Range(s) == {s[i] : i \in 1..Len(s)}

\* what a line contributes to its block's text: a heading without its '### '
LineBody(l) == IF l.kind = "h3" THEN SliceFrom(l.raw, 4) ELSE l.raw

RECURSIVE JoinBodies(_, _, _)
JoinBodies(b, i, n) ==
    IF i > n THEN <<>>
    ELSE IF i = n THEN LineBody(b[i])
         ELSE LineBody(b[i]) \o << NL >> \o JoinBodies(b, i + 1, n)

\* number of lines of the block before its first option line
StemLines(b) ==
    IF \E i \in 1..Len(b) : IsOptionLine(b[i])
    THEN (CHOOSE i \in 1..Len(b) :
             IsOptionLine(b[i]) /\ \A k \in 1..(i - 1) : ~IsOptionLine(b[k])) - 1
    ELSE Len(b)

\* the stem of a block: all its text before the first option line, trimmed
StemOf(b) == strip(JoinBodies(b, 1, StemLines(b)))

\* the first line of the block that is not blank, trimmed
FirstSolidLine(b) ==
    LET solid == {i \in 1..Len(b) : strip(LineBody(b[i])) # <<>>}
    IN  IF solid = {} THEN <<>>
        ELSE strip(LineBody(b[CHOOSE i \in solid : \A k \in solid : i <= k]))

\* the questions come from blocks of the document, in increasing order
WellSourced ==
    /\ Len(section_of) = Len(questions)
    /\ \A qi \in 1..Len(section_of) : section_of[qi] \in 1..NumBlocks(readme)
    /\ \A qi \in 1..Len(section_of) : \A qk \in 1..Len(section_of) :
          qi < qk => section_of[qi] < section_of[qk]

Emitted(j) == \E qi \in 1..Len(section_of) : section_of[qi] = j

ValidStem(b) == StemOf(b) # <<>> /\ lower(StemOf(b)) # Placeholder

(***************************************************************************)
(* State machine                                                           *)
(***************************************************************************)
\* nothing extracted yet
ParseIdle ==
    /\ content = <<>>
    /\ question_sections = <<>>
    /\ questions = <<>>
    /\ section_of = <<>>

\* no explanation asked, no CSV file on disk, no agent constructed
PipeIdle ==
    /\ main_i = 0
    /\ calls = <<>>
    /\ csvfile = NoFile
    /\ questions_data = <<>>

NoCall == [made |-> FALSE, has_index |-> FALSE, question_index |-> 0,
           question_text |-> <<>>, reply |-> ErrorRecord("", 0, FALSE)]

NoOutput == [exists |-> FALSE, content |-> <<>>]

\* the agent not called yet, no file of explanations on disk
AgentIdle ==
    /\ result = NoCall
    /\ save_i = 0
    /\ all_explanations = <<>>
    /\ outfile = NoOutput
    /\ writes = 0

NoOutcome == [printed |-> "", marks |-> <<>>]

\* no session of interactive_quiz.py
BrowserIdle ==
    /\ outcome = NoOutcome
    /\ how = ""
    /\ menu_shown = FALSE
    /\ interrupted_at = ""
    /\ session = <<>>
    /\ topic_hits = <<>>
    /\ num_questions = 0

NotPresented == [labeled_options |-> <<>>, correct_letters |-> {}]

NotGraded == [done |-> FALSE, correct |-> FALSE]

\* no quiz run
QuizIdle ==
    /\ quiz_questions = <<>>
    /\ qn = 0
    /\ shuffled = NotPresented
    /\ submitted = <<>>
    /\ graded = NotGraded
    /\ correct_count = 0

LaterIdle == AgentIdle /\ BrowserIdle /\ QuizIdle

Init ==
    /\ readme \in Docs
    /\ ParseIdle
    /\ PipeIdle
    /\ LaterIdle
    /\ pc = "start"

Extract ==
    /\ pc = "start"
    /\ content' = FileRead(readme)
    /\ question_sections' = split_sections(content')
    \* the loop runs once; its result gives the questions and their sections
    /\ \E r \in {sections_loop(question_sections', 2, [questions |-> <<>>, src |-> <<>>])} :
           /\ questions' = r.questions
           /\ section_of' = r.src
    /\ pc' = "done"
    /\ UNCHANGED <<readme, pipeVars, laterVars>>

(***************************************************************************)
(* main of extract_questions.py: explain every question, save the CSV; the *)
(* agent of aws_quiz_agent.py then loads the CSV                           *)
(***************************************************************************)
\* one iteration of 'for i, question in enumerate(questions)'
ExplainQuestion ==
    /\ pc = "done"
    /\ main_i < Len(questions)
    /\ \E llm \in LLMResponses :
          LET r == get_explanation_for_question(questions[main_i + 1], llm)
          IN  /\ calls' = Append(calls, r)
              /\ questions' =
                    [questions EXCEPT ![main_i + 1].EXPLANATIONS =
                        IF r.raised THEN ErrorPrefix \o r.value ELSE r.value]
    /\ main_i' = main_i + 1
    /\ UNCHANGED <<parseVars, pc, csvfile, questions_data, laterVars>>

\* save_to_csv(questions, output_file) at the end of main
SaveToCsv ==
    /\ pc = "done"
    /\ main_i = Len(questions)
    /\ csvfile' = save_to_csv(questions)
    /\ pc' = "saved"
    /\ UNCHANGED <<parseVars, questions, main_i, calls, questions_data, laterVars>>

\* AWSQuizAgent.__init__ of aws_quiz_agent.py: self._load_questions()
LoadQuestions ==
    /\ pc = "saved"
    /\ questions_data' = load_questions(csvfile)
    /\ pc' = "loaded"
    /\ UNCHANGED <<parseVars, questions, main_i, calls, csvfile, laterVars>>

PipeInit ==
    /\ readme \in PipeDocs
    /\ ParseIdle
    /\ PipeIdle
    /\ LaterIdle
    /\ pc = "start"

PipeNext == Extract \/ ExplainQuestion \/ SaveToCsv \/ LoadQuestions

\* extract_questions.py run on a README, then an agent constructed on its CSV
PipeSpec == PipeInit /\ [][PipeNext]_vars

(***************************************************************************)
(* A caller of the agent of aws_quiz_agent.py                              *)
(***************************************************************************)
\* READMEs with no, one, two and three questions
AgentDocs ==
    { << L_Blank >>,
      << L_Blank, L_H3Q, L_Checked >>,
      << L_Blank, L_H3Q, L_Checked, L_Unchecked, P_H3Special, P_CheckedSpecial, P_UncheckedSpecial >>,
      << L_Blank, P_H3Special, L_Checked, L_H3Q, L_Unchecked, L_Checked, L_H3Placeholder, L_Checked,
         L_H3Q, P_CheckedEmpty >> }

\* the CSV files the agent is constructed on: none, or one extract_questions.py wrote
AgentCsvFiles ==
    {NoFile} \cup { save_to_csv(extract_questions_from_readme(FileRead(d)).questions) : d \in AgentDocs }

\* the arguments of get_explanation_for_question: None is an empty text
AgentTexts == { <<>>, << "q" >>, << "Q", "," >>, << "z" >> }

AgentInit ==
    /\ readme = << L_Blank >>
    /\ ParseIdle
    /\ main_i = 0
    /\ calls = <<>>
    /\ csvfile \in AgentCsvFiles
    /\ questions_data = load_questions(csvfile)
    /\ AgentIdle
    /\ BrowserIdle
    /\ QuizIdle
    /\ pc = "agent"

\* agent.get_explanation_for_question(question_index, question_text)
CallGetExplanation ==
    /\ pc = "agent"
    /\ \E has_index \in BOOLEAN, question_index \in (-MaxIndex)..MaxIndex,
          search_text \in AgentTexts, llm \in AgentLLM :
          /\ (~has_index => question_index = 0)
          /\ result' = [made |-> TRUE, has_index |-> has_index,
                        question_index |-> question_index,
                        question_text |-> search_text,
                        reply |-> agent_get_explanation_for_question(
                                     questions_data, has_index, question_index,
                                     search_text, llm)]
    /\ UNCHANGED <<parseVars, questions, pc, pipeVars, save_i, all_explanations, outfile, writes, sessionVars>>

\* save_explanations_to_file is entered: all_explanations = []
SaveStart ==
    /\ pc = "agent"
    /\ pc' = "saving"
    /\ save_i' = 0
    /\ all_explanations' = <<>>
    /\ writes' = 0
    /\ UNCHANGED <<parseVars, questions, pipeVars, result, outfile, sessionVars>>

\* one iteration of 'for i in range(len(self.questions_data))'
SaveStep ==
    /\ pc = "saving"
    /\ save_i < Len(questions_data)
    /\ \E llm \in AgentLLM :
          all_explanations' =
             Append(all_explanations,
                    agent_get_explanation_for_question(questions_data, TRUE, save_i, <<>>, llm))
    /\ save_i' = save_i + 1
    /\ UNCHANGED <<parseVars, questions, pc, pipeVars, result, outfile, writes, sessionVars>>

\* the loop is left before the file is opened
SaveWriteEarly ==
    /\ pc = "saving"
    /\ save_i >= 1
    /\ outfile' = [exists |-> TRUE, content |-> all_explanations]
    /\ writes' = writes + 1
    /\ pc' = "written"
    /\ UNCHANGED <<parseVars, questions, pipeVars, result, save_i, all_explanations, sessionVars>>

\* after the loop: open(filename, 'w') and json.dump(all_explanations, f)
SaveWrite ==
    /\ pc = "saving"
    /\ save_i = Len(questions_data)
    /\ outfile' = [exists |-> TRUE, content |-> all_explanations]
    /\ writes' = writes + 1
    /\ pc' = "written"
    /\ UNCHANGED <<parseVars, questions, pipeVars, result, save_i, all_explanations, sessionVars>>

\* the run stops in the loop: a KeyboardInterrupt during a call of the model
\* or during time.sleep(1)
SaveStop ==
    /\ pc = "saving"
    /\ save_i < Len(questions_data)
    /\ pc' = "stopped"
    /\ UNCHANGED <<parseVars, questions, pipeVars, agentVars, sessionVars>>

\* save_explanations_to_file has returned or raised: back in the caller
SaveReturn ==
    /\ pc \in {"written", "stopped"}
    /\ pc' = "agent"
    /\ UNCHANGED <<parseVars, questions, pipeVars, agentVars, sessionVars>>

AgentNext ==
    CallGetExplanation \/ SaveStart \/ SaveStep \/ SaveWrite \/ SaveStop \/ SaveReturn

\* an agent constructed on a CSV file, then called
AgentSpec == AgentInit /\ [][AgentNext]_vars

(***************************************************************************)
(* interactive_quiz.py: the menu-driven session                            *)
(***************************************************************************)
\* the lines the user types at the prompts
BrowserLines ==
    { <<>>,
      << "0" >>,
      << "1" >>,
      << "2" >>,
      << "3" >>,
      << "4" >>,
      << "5" >>,
      << "6" >>,
      << "9" >>,
      << " ", "1", " " >>,
      << "-", "1" >>,
      << "x" >>,
      << "y" >>,
      << "Y", " " >>,
      << "q" >> }

Digits == << "0", "1", "2", "3", "4", "5", "6", "7", "8", "9" >>

IsDigit(c) == \E d \in 1..10 : Digits[d] = c

DigitVal(c) == (CHOOSE d \in 1..10 : Digits[d] = c) - 1

RECURSIVE IntOfDigits(_, _)
\* the number the first n digits of s write
IntOfDigits(s, n) == IF n = 0 THEN 0 ELSE 10 * IntOfDigits(s, n - 1) + DigitVal(s[n])

\* int(s): ok is FALSE where int raises ValueError
int_parse(s) ==
    LET t      == strip(s)
        signed == t # <<>> /\ t[1] \in {"-", "+"}
        body   == IF signed THEN Tail(t) ELSE t
    IN  IF body = <<>> \/ \E i \in 1..Len(body) : ~IsDigit(body[i])
        THEN [ok |-> FALSE, value |-> 0]
        ELSE [ok |-> TRUE,
              value |-> IF t[1] = "-" THEN 0 - IntOfDigits(body, Len(body))
                        ELSE IntOfDigits(body, Len(body))]

\* what a menu action printed last, and the exception it raised, if any
Printed(p) == [printed |-> p, marks |-> <<>>, raised |-> ""]

RaisedIn(e) == [printed |-> "", marks |-> <<>>, raised |-> e]

\* 'if choice in explanation['correct_answers']' for each answer choice
mark_choices_first(answer_choices, correct_answers) ==
    [i \in 1..Len(answer_choices) |->
        correct_answers # <<>> /\ answer_choices[i] = correct_answers[1]]

mark_choices(answer_choices, correct_answers) ==
    [i \in 1..Len(answer_choices) |-> answer_choices[i] \in Range(correct_answers)]

\* display_explanation without the test of line 210: the error record has
\* no key 'question'
display_explanation_unchecked(explanation) ==
    IF HasError(explanation) THEN RaisedIn("Exception")
    ELSE [printed |-> "explanation",
          marks |-> mark_choices(explanation.answer_choices, explanation.correct_answers),
          raised |-> ""]

display_explanation(explanation) ==
    IF HasError(explanation) THEN Printed("error")
    ELSE [printed |-> "explanation",
          marks |-> mark_choices(explanation.answer_choices, explanation.correct_answers),
          raised |-> ""]

\* the model answers, fails, or the user interrupts the call
BrowserLLM == AgentLLM \cup {"interrupt"}

\* a call of the agent in the session: the KeyboardInterrupt of an
\* interrupted call of the model is no Exception and leaves the agent
browser_call(data, has_index, question_index, search_text, llm) ==
    LET r == agent_get_explanation_for_question(data, has_index, question_index, search_text,
                 IF llm = "interrupt" THEN "answer" ELSE llm)
    IN  [interrupted |-> llm = "interrupt" /\ r.called, reply |-> r]

\* display_explanation(agent.get_explanation_for_question(...))
call_and_display(c) ==
    IF c.interrupted THEN RaisedIn("KeyboardInterrupt")
    ELSE IF c.reply.raised THEN RaisedIn("Exception")
    ELSE display_explanation(c.reply)

\* get_question_by_topic: the positions of the questions about the topic
get_question_by_topic(data, topic) ==
    LET Hit(k) == Contains(lower(data[k].question), lower(topic))
    IN  SelectSeq([k \in 1..Len(data) |-> k], Hit)

\* agent.create_study_session: the explanations of the first num questions
study_session(data, num, topic, llm) ==
    LET available == IF topic # <<>> THEN get_question_by_topic(data, topic)
                     ELSE [k \in 1..Len(data) |-> k]
        selected  == SubSeq(available, 1, IF num < Len(available) THEN num ELSE Len(available))
    IN  [k \in 1..Len(selected) |-> browser_call(data, TRUE, selected[k] - 1, <<>>, llm)]

\* the reads of the session and the line of main where each happens
ReadPositions ==
    {"key_prompt", "menu", "explain_choice", "explain_number", "explain_search",
     "topic", "topic_pick", "session_count", "session_topic", "session_next",
     "save_filename", "save_confirm"}

\* the positions inside a menu action
ActionPositions == ReadPositions \ {"key_prompt", "menu"}

\* the reads inside the try block of main, which starts after get_api_key()
InsideTry(p) == p # "key_prompt"

\* what the session does not touch
BrowserFrame ==
    UNCHANGED <<parseVars, questions, main_i, calls, csvfile, result, save_i,
                all_explanations, writes, quizVars>>

BrowserInit ==
    /\ readme = << L_Blank >>
    /\ ParseIdle
    /\ main_i = 0
    /\ calls = <<>>
    /\ csvfile \in AgentCsvFiles
    /\ questions_data = <<>>
    /\ AgentIdle
    /\ BrowserIdle
    /\ QuizIdle
    /\ pc \in {"key_prompt", "construct"}

\* the end of a menu action: back in the loop of main, or in its handlers
EndAction(r) ==
    /\ outcome' = [printed |-> IF r.raised = "KeyboardInterrupt" THEN "goodbye"
                               ELSE IF r.raised = "Exception" THEN "fatal"
                               ELSE r.printed,
                   marks |-> r.marks]
    /\ pc' = IF r.raised = "" THEN "menu" ELSE "ended"
    /\ how' = IF r.raised = "KeyboardInterrupt" THEN "goodbye"
              ELSE IF r.raised = "Exception" THEN "error"
              ELSE how

\* get_api_key with no key in the environment: input("OpenAI API Key: ")
KeyPrompt ==
    /\ pc = "key_prompt"
    /\ \E line \in BrowserLines :
          IF strip(line) = <<>>
          THEN pc' = "ended" /\ how' = "no_key"
          ELSE pc' = "construct" /\ how' = how
    /\ BrowserFrame
    /\ UNCHANGED <<questions_data, outfile, outcome, menu_shown, interrupted_at,
                   session, topic_hits, num_questions>>

\* agent = AWSQuizAgent(api_key): the constructor loads the questions, or
\* raises where the PDF of the slides cannot be read
Construct ==
    /\ pc = "construct"
    /\ \/ /\ questions_data' = load_questions(csvfile)
          /\ pc' = "menu"
          /\ menu_shown' = TRUE
          /\ UNCHANGED <<how, outcome>>
       \/ /\ pc' = "ended"
          /\ how' = "error"
          /\ outcome' = [printed |-> "fatal", marks |-> <<>>]
          /\ UNCHANGED <<questions_data, menu_shown>>
    /\ BrowserFrame
    /\ UNCHANGED <<outfile, interrupted_at, session, topic_hits, num_questions>>

\* show_menu(); choice = input("Enter your choice (0-6): ").strip()
Menu ==
    /\ pc = "menu"
    /\ \E line \in BrowserLines :
          LET choice == strip(line)
          IN  CASE choice = << "0" >> ->
                     pc' = "ended" /\ how' = "exit" /\ outcome' = [printed |-> "goodbye", marks |-> <<>>]
                [] choice = << "1" >> -> pc' = "explain_choice" /\ how' = how /\ outcome' = NoOutcome
                [] choice = << "2" >> -> pc' = "topic" /\ how' = how /\ outcome' = NoOutcome
                [] choice = << "3" >> -> pc' = "session_count" /\ how' = how /\ outcome' = NoOutcome
                [] choice = << "4" >> -> pc' = "save_filename" /\ how' = how /\ outcome' = NoOutcome
                [] choice = << "5" >> -> EndAction(Printed("statistics"))
                [] choice = << "6" >> -> EndAction(Printed("help"))
                [] OTHER -> EndAction(Printed("invalid_choice"))
    /\ BrowserFrame
    /\ UNCHANGED <<questions_data, outfile, menu_shown, interrupted_at, session,
                   topic_hits, num_questions>>

\* get_question_explanation: choice = input("Enter your choice (1-2): ").strip()
ExplainChoice ==
    /\ pc = "explain_choice"
    /\ \E line \in BrowserLines :
          LET choice == strip(line)
          IN  CASE choice = << "1" >> -> pc' = "explain_number" /\ UNCHANGED <<how, outcome>>
                [] choice = << "2" >> -> pc' = "explain_search" /\ UNCHANGED <<how, outcome>>
                [] OTHER -> EndAction(Printed(""))
    /\ BrowserFrame
    /\ UNCHANGED <<questions_data, outfile, menu_shown, interrupted_at, session,
                   topic_hits, num_questions>>

\* question_num = int(input("Enter question number (1-385): ")) - 1
ExplainNumber ==
    /\ pc = "explain_number"
    /\ \E line \in BrowserLines, llm \in BrowserLLM :
          LET n == int_parse(line)
              question_num == n.value - 1
          IN  IF ~n.ok THEN EndAction(Printed("invalid_number"))
              ELSE IF 0 <= question_num /\ question_num < Len(questions_data)
              THEN EndAction(call_and_display(
                      browser_call(questions_data, TRUE, question_num, <<>>, llm)))
              ELSE EndAction(Printed("out_of_range"))
    /\ BrowserFrame
    /\ UNCHANGED <<questions_data, outfile, menu_shown, interrupted_at, session,
                   topic_hits, num_questions>>

\* search_term = input("Enter search term: ").strip()
ExplainSearch ==
    /\ pc = "explain_search"
    /\ \E line \in BrowserLines, llm \in BrowserLLM :
          LET search_term == strip(line)
              c == browser_call(questions_data, FALSE, 0, search_term, llm)
          IN  IF search_term = <<>> THEN EndAction(Printed("no_term"))
              ELSE IF c.interrupted THEN EndAction(RaisedIn("KeyboardInterrupt"))
              ELSE IF c.reply.raised THEN EndAction(RaisedIn("Exception"))
              ELSE IF ~HasError(c.reply) THEN EndAction(display_explanation(c.reply))
              ELSE EndAction(Printed("not_found"))
    /\ BrowserFrame
    /\ UNCHANGED <<questions_data, outfile, menu_shown, interrupted_at, session,
                   topic_hits, num_questions>>

\* find_questions_by_topic: topic = input("Enter topic: ").strip()
Topic ==
    /\ pc = "topic"
    /\ \E line \in BrowserLines :
          LET topic == strip(line)
              found == get_question_by_topic(questions_data, topic)
          IN  IF topic = <<>> THEN EndAction(Printed("")) /\ UNCHANGED topic_hits
              ELSE IF found = <<>> THEN EndAction(Printed("not_found")) /\ UNCHANGED topic_hits
              ELSE /\ pc' = "topic_pick"
                   /\ topic_hits' = found
                   /\ UNCHANGED <<how, outcome>>
    /\ BrowserFrame
    /\ UNCHANGED <<questions_data, outfile, menu_shown, interrupted_at, session,
                   num_questions>>

\* choice = int(input("Enter question number ... or 0 to skip: "))
TopicPick ==
    /\ pc = "topic_pick"
    /\ \E line \in BrowserLines, llm \in BrowserLLM :
          LET n == int_parse(line)
          IN  IF n.ok /\ 1 <= n.value /\ n.value <= Len(topic_hits)
              THEN EndAction(call_and_display(
                      browser_call(questions_data, TRUE, topic_hits[n.value] - 1, <<>>, llm)))
              ELSE EndAction(Printed(""))
    /\ topic_hits' = <<>>
    /\ BrowserFrame
    /\ UNCHANGED <<questions_data, outfile, menu_shown, interrupted_at, session,
                   num_questions>>

\* create_study_session: num_questions = int(input("Number of questions (1-20): "))
SessionCount ==
    /\ pc = "session_count"
    /\ \E line \in BrowserLines :
          LET n == int_parse(line)
          IN  num_questions' =
                 IF ~n.ok THEN 5
                 ELSE IF n.value < 1 THEN 1
                 ELSE IF n.value > 20 THEN 20
                 ELSE n.value
    /\ pc' = "session_topic"
    /\ BrowserFrame
    /\ UNCHANGED <<questions_data, outfile, outcome, how, menu_shown, interrupted_at,
                   session, topic_hits>>

\* topic = input("Topic (optional, press Enter to skip): ").strip(), the
\* session is created and its first explanation displayed
SessionTopic ==
    /\ pc = "session_topic"
    /\ \E line \in BrowserLines, llm \in BrowserLLM :
          LET created == study_session(questions_data, num_questions, strip(line), llm)
          IN  IF \E k \in 1..Len(created) : created[k].interrupted
              THEN EndAction(RaisedIn("KeyboardInterrupt")) /\ UNCHANGED session
              ELSE IF created = <<>>
              THEN EndAction(Printed("session")) /\ UNCHANGED session
              ELSE IF Len(created) = 1 \/ call_and_display(created[1]).raised # ""
              THEN EndAction(call_and_display(created[1])) /\ UNCHANGED session
              ELSE /\ outcome' = [printed |-> call_and_display(created[1]).printed,
                                  marks |-> call_and_display(created[1]).marks]
                   /\ session' = Tail(created)
                   /\ pc' = "session_next"
                   /\ UNCHANGED how
    /\ num_questions' = 0
    /\ BrowserFrame
    /\ UNCHANGED <<questions_data, outfile, menu_shown, interrupted_at, topic_hits>>

\* input("Press Enter for next question..."), then the next explanation
SessionNext ==
    /\ pc = "session_next"
    /\ \E line \in BrowserLines :
          IF Len(session) = 1 \/ call_and_display(session[1]).raised # ""
          THEN EndAction(call_and_display(session[1])) /\ session' = <<>>
          ELSE /\ outcome' = [printed |-> call_and_display(session[1]).printed,
                              marks |-> call_and_display(session[1]).marks]
               /\ session' = Tail(session)
               /\ UNCHANGED <<pc, how>>
    /\ BrowserFrame
    /\ UNCHANGED <<questions_data, outfile, menu_shown, interrupted_at, topic_hits,
                   num_questions>>

\* save_explanations: filename = input("Filename (default: ...): ").strip()
SaveFilename ==
    /\ pc = "save_filename"
    /\ \E line \in BrowserLines : pc' = "save_confirm"
    /\ BrowserFrame
    /\ UNCHANGED <<questions_data, outfile, outcome, how, menu_shown, interrupted_at,
                   session, topic_hits, num_questions>>

\* confirm = input("Continue? (y/N): ").strip().lower(), then
\* agent.save_explanations_to_file(filename) inside try / except Exception
SaveConfirm ==
    /\ pc = "save_confirm"
    /\ \E line \in BrowserLines, llm \in BrowserLLM, opened \in BOOLEAN :
          LET confirm == lower(strip(line))
              saved   == [k \in 1..Len(questions_data) |->
                            browser_call(questions_data, TRUE, k - 1, <<>>, llm)]
          IN  IF confirm # << "y" >>
              THEN EndAction(Printed("cancelled")) /\ UNCHANGED outfile
              ELSE IF \E k \in 1..Len(saved) : saved[k].interrupted
              THEN EndAction(RaisedIn("KeyboardInterrupt")) /\ UNCHANGED outfile
              ELSE IF ~opened
              THEN EndAction(Printed("save_error")) /\ UNCHANGED outfile
              ELSE /\ EndAction(Printed("saved"))
                   /\ outfile' = [exists |-> TRUE,
                                  content |-> [k \in 1..Len(saved) |-> saved[k].reply]]
    /\ BrowserFrame
    /\ UNCHANGED <<questions_data, menu_shown, interrupted_at, session, topic_hits,
                   num_questions>>

\* KeyboardInterrupt raised in a read: 'except KeyboardInterrupt' of main
\* handles it where the read is inside the try block
Interrupt ==
    /\ pc \in ReadPositions
    /\ interrupted_at' = pc
    /\ pc' = "ended"
    /\ how' = IF InsideTry(pc) THEN "goodbye" ELSE "traceback"
    /\ outcome' = [printed |-> IF InsideTry(pc) THEN "goodbye" ELSE "traceback",
                   marks |-> <<>>]
    /\ BrowserFrame
    /\ UNCHANGED <<questions_data, outfile, menu_shown, session, topic_hits, num_questions>>

BrowserNext ==
    \/ KeyPrompt \/ Construct \/ Menu \/ ExplainChoice \/ ExplainNumber
    \/ ExplainSearch \/ Topic \/ TopicPick \/ SessionCount \/ SessionTopic
    \/ SessionNext \/ SaveFilename \/ SaveConfirm \/ Interrupt

\* a session of interactive_quiz.py
BrowserSpec == BrowserInit /\ [][BrowserNext]_vars

(***************************************************************************)
(* The practice exam: OptionShuffler and QuizRunner                        *)
(***************************************************************************)
\* the letters of the options, ten at most
Letters == << "A", "B", "C", "D", "E", "F", "G", "H", "I", "J" >>

\* str.upper() on the letters the answers use
UpperChar(c) ==
    CASE c = "a" -> "A"
      [] c = "b" -> "B"
      [] c = "c" -> "C"
      [] c = "d" -> "D"
      [] c = "x" -> "X"
      [] OTHER -> c

upper(s) == [i \in 1..Len(s) |-> UpperChar(s[i])]

NotSpace(c) == c # " "

\* the permutations of 1..n
Perms(n) == {p \in [1..n -> 1..n] : \A i, j \in 1..n : p[i] = p[j] => i = j}

\* the PresentedQuestion of a Question whose options are taken in the order
\* perm: the options are lettered in the new order, and a letter is correct
\* iff the text of its option is one of the correct options
present(q, perm) ==
    LET labeled == [i \in 1..Len(q.ANSWER_CHOICES) |-> q.ANSWER_CHOICES[perm[i]]]
        marks   == mark_choices(labeled, q.ANSWERS)
    IN  [labeled_options |-> labeled,
         correct_letters |-> {Letters[i] : i \in {k \in 1..Len(labeled) : marks[k]}}]

\* input normalization without the upper-casing
normalize_keep_case(input) == SelectSeq(strip(input), NotSpace)

\* input normalization: trim, remove the spaces inside, upper-case
normalize(input) == upper(SelectSeq(strip(input), NotSpace))

\* the letters of a multi-letter answer: the normalized input split on commas
submitted_letters(input) == Range(SplitFrom(normalize(input), << "," >>, 1, 1))

\* the grading rule: set equality where more than one letter is correct,
\* else the one letter
grade(input, correct_letters) ==
    IF Cardinality(correct_letters) > 1
    THEN submitted_letters(input) = { << l >> : l \in correct_letters }
    ELSE \E l \in correct_letters : correct_letters = {l} /\ normalize(input) = << l >>

\* READMEs of quizzes: one or two questions, up to three options
QuizDocs ==
    { << L_Blank, L_H3Q, L_Checked, L_Unchecked >>,
      << L_Blank, L_H3Q, L_Checked, L_Unchecked, P_CheckedSpecial >>,
      << L_Blank, L_H3Q, L_Checked, L_Unchecked, L_Checked >>,
      << L_Blank, L_H3Q, P_CheckedSpecial, L_Checked, P_UncheckedSpecial,
         P_H3Special, L_Unchecked, L_Checked >> }

\* the answers typed
QuizInputs ==
    { << "A", ",", "C" >>,
      << "C", ",", "A" >>,
      << "a", ",", " ", "c" >>,
      << "A" >>,
      << "C" >>,
      << " ", "b", " " >>,
      << "A", ",", "C", ",", "A" >>,
      << "A", ",", "B", ",", "C" >>,
      << "A", ",", "B" >>,
      <<>>,
      << "a" >> }

QuizInit ==
    /\ readme \in QuizDocs
    /\ ParseIdle
    /\ PipeIdle
    /\ AgentIdle
    /\ BrowserIdle
    /\ quiz_questions = extract_questions_from_readme(FileRead(readme)).questions
    /\ qn = 1
    /\ shuffled = NotPresented
    /\ submitted = <<>>
    /\ graded = NotGraded
    /\ correct_count = 0
    /\ pc = "presenting"

QuizFrame == UNCHANGED <<parseVars, questions, pipeVars, agentVars, browserVars, quiz_questions>>

\* OptionShuffler: the question is presented with its options permuted
Shuffle ==
    /\ pc = "presenting"
    /\ \E perm \in Perms(Len(quiz_questions[qn].ANSWER_CHOICES)) :
          shuffled' = present(quiz_questions[qn], perm)
    /\ graded' = NotGraded
    /\ submitted' = <<>>
    /\ pc' = "awaiting"
    /\ QuizFrame
    /\ UNCHANGED <<qn, correct_count>>

\* the answer is read
Answer ==
    /\ pc = "awaiting"
    /\ submitted' \in QuizInputs
    /\ pc' = "grading"
    /\ QuizFrame
    /\ UNCHANGED <<qn, shuffled, graded, correct_count>>

\* the answer is graded and the score updated
Grade ==
    /\ pc = "grading"
    /\ LET correct == grade(submitted, shuffled.correct_letters)
       IN  /\ graded' = [done |-> TRUE, correct |-> correct]
           /\ correct_count' = IF correct THEN correct_count + 1 ELSE correct_count
    /\ pc' = "graded"
    /\ QuizFrame
    /\ UNCHANGED <<qn, shuffled, submitted>>

\* the next question, or the report after the last
NextQuestion ==
    /\ pc = "graded"
    /\ IF qn < Len(quiz_questions)
       THEN qn' = qn + 1 /\ pc' = "presenting"
       ELSE qn' = qn /\ pc' = "finished"
    /\ QuizFrame
    /\ UNCHANGED <<shuffled, submitted, graded, correct_count>>

QuizNext == Shuffle \/ Answer \/ Grade \/ NextQuestion

\* a run of the quiz on the questions of a README
QuizSpec == QuizInit /\ [][QuizNext]_vars

Next == Extract

Spec == Init /\ [][Next]_vars

(***************************************************************************)
(* Claims                                                                  *)
(***************************************************************************)
Done == pc = "done"

\* C1: for every emitted question, ANSWERS is exactly the sequence of the
\* texts of the '- [x]' lines of its block in document order (so no '- [ ]'
\* line contributes an entry), and every element of ANSWERS is an element of
\* ANSWER_CHOICES.
C1_AnswersAreCheckedOptions ==
    Done =>
      /\ WellSourced
      /\ \A qi \in 1..Len(questions) :
            LET b == BlockOf(readme, section_of[qi])
                q == questions[qi]
            IN  /\ q.ANSWERS = CheckedTexts(b)
                /\ \A i \in 1..Len(b) :
                      (b[i].kind = "unchecked" /\ b[i].text \notin Range(CheckedTexts(b)))
                         => b[i].text \notin Range(q.ANSWERS)
                /\ Range(q.ANSWERS) \subseteq Range(q.ANSWER_CHOICES)

\* C2: the document '### Is S3 durable?' / '- [x] Yes' / '- [ ] No', heading
\* on its first line, parses to exactly one Question with that stem, the
\* options Yes, No in that order and the correct options {Yes}.
C2_ScenarioParses ==
    (Done /\ readme = ScenarioDoc) =>
      /\ Len(questions) = 1
      /\ questions[1].QUESTION = ScenarioStem
      /\ questions[1].ANSWER_CHOICES = << << "Y", "e", "s" >>, << "N", "o" >> >>
      /\ Range(questions[1].ANSWERS) = { << "Y", "e", "s" >> }

\* C3 as stated: the stem of every emitted question is all of its block's
\* text that precedes the first option line (stated for the blocks whose
\* heading line carries text).
C3_StemIsAllTextBeforeOptions ==
    Done =>
      /\ WellSourced
      /\ \A qi \in 1..Len(questions) :
            LET b == BlockOf(readme, section_of[qi])
            IN  b[1].text # <<>> => questions[qi].QUESTION = StemOf(b)

\* C3 as amended: the stem of every emitted question is the first non-blank
\* line of its block alone, trimmed; the lines between it and the first
\* option line are not part of it.
C3_StemIsFirstLine ==
    Done =>
      /\ WellSourced
      /\ \A qi \in 1..Len(questions) :
            questions[qi].QUESTION = FirstSolidLine(BlockOf(readme, section_of[qi]))

\* an emitted question whose block has a non-blank line between its heading
\* and its first option line
C3_Witness ==
    /\ Done
    /\ WellSourced
    /\ \E qi \in 1..Len(questions) :
          LET b == BlockOf(readme, section_of[qi])
          IN  /\ b[1].text # <<>>
              /\ Len(b) >= 3
              /\ b[2].kind \in {"h4", "upperx"}
              /\ IsOptionLine(b[3])
              /\ questions[qi].QUESTION = b[1].text

\* the document without the navigation lines that lie inside its blocks
RECURSIVE DropNav(_, _, _)
DropNav(d, i, from) ==
    IF i > Len(d) THEN <<>>
    ELSE IF d[i].kind = "nav" /\ i > from THEN DropNav(d, i + 1, from)
         ELSE << d[i] >> \o DropNav(d, i + 1, from)

FirstBlockStart(d) ==
    IF RecognisedHeadings(d) = {} THEN Len(d) + 1 ELSE BlockStart(d, 1)

WithoutNav(d) == DropNav(d, 1, FirstBlockStart(d))

OptionsOf(qs) ==
    [i \in 1..Len(qs) |->
        [ANSWER_CHOICES |-> qs[i].ANSWER_CHOICES, ANSWERS |-> qs[i].ANSWERS]]

\* C4: a 'back to top' line is never extracted as an option, and the
\* ANSWER_CHOICES and ANSWERS extracted from a document are those extracted
\* from the same document without the navigation lines inside its blocks.
C4_NavLinesChangeNothing ==
    Done =>
      /\ \A qi \in 1..Len(questions) :
            \A c \in Range(questions[qi].ANSWER_CHOICES) : ~startswith(c, NavLinkBold)
      /\ OptionsOf(questions)
            = OptionsOf(extract_questions_from_readme(FileRead(WithoutNav(readme))).questions)

\* C5 as stated: a block with a non-empty, non-placeholder stem and no
\* option lines yields a Question with empty options and correct options.
C5_OptionlessBlockEmitted ==
    Done =>
      \A j \in 1..NumBlocks(readme) :
         LET b == BlockOf(readme, j)
         IN  (ValidStem(b) /\ OptionTexts(b) = <<>>)
                => \E qi \in 1..Len(questions) :
                      /\ qi <= Len(section_of)
                      /\ section_of[qi] = j
                      /\ questions[qi].ANSWER_CHOICES = <<>>
                      /\ questions[qi].ANSWERS = <<>>

\* C5 as amended: a block with no option lines yields no Question.
C5_OptionlessBlockDropped ==
    Done =>
      /\ WellSourced
      /\ \A j \in 1..NumBlocks(readme) :
            OptionTexts(BlockOf(readme, j)) = <<>> => ~Emitted(j)

\* a parsed document with a block of valid stem and no option lines
C5_Witness ==
    /\ Done
    /\ \E j \in 1..NumBlocks(readme) :
          LET b == BlockOf(readme, j)
          IN  ValidStem(b) /\ OptionTexts(b) = <<>> /\ ~Emitted(j)

\* C6 as stated: a block with a valid stem, at least one option line and no
\* checked option is retained as a Question with its options and no correct
\* option.
C6_UncheckedBlockRetained ==
    Done =>
      \A j \in 1..NumBlocks(readme) :
         LET b == BlockOf(readme, j)
         IN  (ValidStem(b) /\ OptionTexts(b) # <<>> /\ CheckedTexts(b) = <<>>)
                => \E qi \in 1..Len(questions) :
                      /\ qi <= Len(section_of)
                      /\ section_of[qi] = j
                      /\ questions[qi].ANSWER_CHOICES = OptionTexts(b)
                      /\ questions[qi].ANSWERS = <<>>

\* C6 as amended: a block with at least one option line and no checked
\* option is dropped; every emitted question has a correct answer.
C6_UncheckedBlockDropped ==
    Done =>
      /\ WellSourced
      /\ \A j \in 1..NumBlocks(readme) :
            LET b == BlockOf(readme, j)
            IN  (OptionTexts(b) # <<>> /\ CheckedTexts(b) = <<>>) => ~Emitted(j)
      /\ \A qi \in 1..Len(questions) : questions[qi].ANSWERS # <<>>

\* a parsed document with a block of valid stem whose options are all unchecked
C6_Witness ==
    /\ Done
    /\ \E j \in 1..NumBlocks(readme) :
          LET b == BlockOf(readme, j)
          IN  /\ ValidStem(b)
              /\ OptionTexts(b) # <<>>
              /\ CheckedTexts(b) = <<>>
              /\ ~Emitted(j)

\* C7: no emitted question has an empty or placeholder stem, and a block
\* whose stem is empty, whitespace or the placeholder contributes nothing to
\* the output, whatever option lines it contains.
C7_NoEmptyOrPlaceholderStem ==
    Done =>
      /\ \A qi \in 1..Len(questions) :
            /\ questions[qi].QUESTION # <<>>
            /\ lower(questions[qi].QUESTION) # Placeholder
      /\ \A j \in 1..NumBlocks(readme) :
            ~ValidStem(BlockOf(readme, j)) => ~Emitted(j)

\* the text of the lines of the document before its first level-3 heading
FrontMatter(d) ==
    LET first == IF AllHeadings(d) = {} THEN Len(d) + 1
                 ELSE CHOOSE i \in AllHeadings(d) : \A k \in AllHeadings(d) : i <= k
    IN  FileRead(SubSeq(d, 1, first - 1))

\* C8: every level-3 heading line of the document, one on its first line
\* included, opens its own candidate block, and only the text before the
\* first heading is discarded as front-matter.
C8_EveryHeadingOpensBlock ==
    Done =>
      /\ Len(question_sections) = 1 + Cardinality(AllHeadings(readme))
      /\ question_sections[1] = FrontMatter(readme)

\* C9: an entry of ANSWERS always comes from a line that, trimmed, starts
\* with '- [x]'; a '- [X]' line adds no entry to the correct options.
C9_MarkerCaseSignificant ==
    Done =>
      /\ WellSourced
      /\ \A qi \in 1..Len(questions) :
            LET b == BlockOf(readme, section_of[qi])
                q == questions[qi]
            IN  /\ Range(q.ANSWERS) \subseteq Range(CheckedTexts(b))
                /\ Len(q.ANSWERS) <= Len(CheckedTexts(b))
                /\ \A i \in 1..Len(b) :
                      b[i].kind = "upperx" => b[i].text \notin Range(q.ANSWERS)

\* an emitted question whose block has a '- [X]' line
C9_Witness ==
    /\ Done
    /\ WellSourced
    /\ \E qi \in 1..Len(questions) :
          LET b == BlockOf(readme, section_of[qi])
          IN  /\ b[1].text # <<>>
              /\ \E i \in 1..Len(b) : b[i].kind = "upperx"
              /\ questions[qi].ANSWERS = << << "A" >> >>

\* C10: a heading line of another level opens no block: the sections are
\* those of the level-3 headings, each yields at most one question, and the
\* option lines that follow such a line belong to the enclosing block's
\* question.
C10_OnlyLevel3IsBoundary ==
    Done =>
      /\ Len(question_sections) = 1 + NumBlocks(readme)
      /\ WellSourced
      /\ \A qi \in 1..Len(questions) :
            LET b == BlockOf(readme, section_of[qi])
            IN  \A i \in 1..Len(b) : \A k \in 1..Len(b) :
                   (b[i].kind = "h4" /\ i < k /\ IsOptionLine(b[k]))
                      => b[k].text \in Range(questions[qi].ANSWER_CHOICES)

\* an emitted question whose block has an option line after a '#### ' line
C10_Witness ==
    /\ Done
    /\ WellSourced
    /\ \E qi \in 1..Len(questions) :
          LET b == BlockOf(readme, section_of[qi])
          IN  \E i \in 1..Len(b) : \E k \in 1..Len(b) :
                 /\ b[1].text # <<>>
                 /\ b[i].kind = "h4" /\ i < k /\ IsOptionLine(b[k])
                 /\ b[k].text \in Range(questions[qi].ANSWER_CHOICES)

\* a block with a heading that carries text other than the placeholder and
\* with at least one checked option line
WellFormed(b) ==
    /\ b[1].text # <<>>
    /\ lower(b[1].text) # Placeholder
    /\ CheckedTexts(b) # <<>>

RECURSIVE ConcatResults(_, _)
\* the results of the sections from the k-th on, one after the other
ConcatResults(sections, k) ==
    IF k > Len(sections) THEN <<>>
    ELSE process_section(sections[k]) \o ConcatResults(sections, k + 1)

\* C17: a skipped block never disturbs the rest of the document: the output
\* is the in-order concatenation of the results of the blocks, and every
\* well-formed block is emitted, with its own stem, options and answers,
\* whatever blocks precede it.
C17_SkippedBlockDisturbsNothing ==
    Done =>
      /\ WellSourced
      /\ Len(question_sections) = 1 + NumBlocks(readme)
      /\ questions = ConcatResults(question_sections, 2)
      /\ \A j \in 1..NumBlocks(readme) :
            LET b == BlockOf(readme, j)
            IN  WellFormed(b) =>
                  \E qi \in 1..Len(questions) :
                     /\ section_of[qi] = j
                     /\ questions[qi].QUESTION = b[1].text
                     /\ questions[qi].ANSWER_CHOICES = OptionTexts(b)
                     /\ questions[qi].ANSWERS = CheckedTexts(b)

\* a skipped block followed by a well-formed block that is emitted
C17_Witness ==
    /\ Done
    /\ WellSourced
    /\ \E j \in 1..NumBlocks(readme) : \E k \in 1..NumBlocks(readme) :
          /\ j < k
          /\ ~Emitted(j)
          /\ WellFormed(BlockOf(readme, k))
          /\ Emitted(k)


\* C11: get_explanation_for_question never raises to its caller: every call
\* made for a question the parser emitted returns a value, whatever the
\* language model does.
C11_ExplanationNeverRaises ==
    \A k \in 1..Len(calls) : ~calls[k].raised

\* C13: the questions loaded from the CSV are the questions that were
\* written: same number, same order, same question text, answer choices and
\* correct answers.
C13_CsvRoundTrip ==
    pc = "loaded" =>
      /\ Len(questions_data) = Len(questions)
      /\ \A i \in 1..Len(questions) :
            i <= Len(questions_data) =>
              /\ questions_data[i].question = questions[i].QUESTION
              /\ questions_data[i].answer_choices = questions[i].ANSWER_CHOICES
              /\ questions_data[i].correct_answers = questions[i].ANSWERS

HasSpecial(s) == \E i \in 1..Len(s) : s[i] \in {",", QUOTE, BACKSLASH, CR, NL}

\* two questions loaded back, one with a comma and a quote in its text and
\* an answer with a quote and a backslash
C13_Witness ==
    /\ pc = "loaded"
    /\ Len(questions) = 2
    /\ Len(questions_data) = 2
    /\ \E i \in 1..2 :
          /\ HasSpecial(questions[i].QUESTION)
          /\ \E k \in 1..Len(questions[i].ANSWERS) : HasSpecial(questions[i].ANSWERS[k])
          /\ questions_data[i].question = questions[i].QUESTION

\* C18: a call with no question_text and a question_index that is no valid
\* position of the loaded questions (negative, or at least their number)
\* returns an error record, selects no question and does not call the model.
C18_InvalidIndexIsAnError ==
    ( /\ result.made
      /\ result.has_index
      /\ result.question_text = <<>>
      /\ ~(0 <= result.question_index /\ result.question_index < Len(questions_data)) )
    => /\ ~result.reply.raised
       /\ HasError(result.reply)
       /\ result.reply.selected = 0
       /\ ~result.reply.called

\* the i-th record of a list of explanations is that of the i-th question:
\* its explanation, or the error record of the failed call of the model
BelongsTo(r, i) ==
    /\ ~r.raised
    /\ r.selected = i
    /\ r.called
    /\ IF HasError(r) THEN r.error = MsgFailed
       ELSE /\ r.question = questions_data[i].question
            /\ r.answer_choices = questions_data[i].answer_choices
            /\ r.correct_answers = questions_data[i].correct_answers

\* C19: save_explanations_to_file takes the questions once each, in load
\* order, and writes the file once, after the last question: while the loop
\* runs and when the run stops in it nothing has been written; what is
\* written has one record per question, the i-th that of the i-th question,
\* an error record where the call of the model failed.
C19_SavedOnceInOrder ==
    /\ pc \in {"saving", "stopped"} =>
          /\ writes = 0
          /\ Len(all_explanations) = save_i
          /\ save_i <= Len(questions_data)
          /\ \A i \in 1..save_i : BelongsTo(all_explanations[i], i)
    /\ pc = "written" =>
          /\ writes = 1
          /\ outfile.exists
          /\ Len(outfile.content) = Len(questions_data)
          /\ \A i \in 1..Len(questions_data) : BelongsTo(outfile.content[i], i)

\* three questions saved, the call of the model failed for the second only
C19_Witness ==
    /\ pc = "written"
    /\ Len(questions_data) = 3
    /\ Len(outfile.content) = 3
    /\ ~HasError(outfile.content[1])
    /\ HasError(outfile.content[2])
    /\ ~HasError(outfile.content[3])

\* C12: in the session of interactive_quiz.py a menu action that ends having
\* printed 'not found' or an error ends at the menu, which is shown again;
\* and once the menu has been shown the session ends only by the exit choice
\* or by an interrupt of the user.
C12_ErrorsReturnToMenu ==
    [][ /\ ( /\ pc \in ActionPositions
             /\ pc' \notin ActionPositions
             /\ outcome'.printed \in {"not_found", "error"} ) => pc' = "menu"
        /\ ( menu_shown /\ pc # "ended" /\ pc' = "ended" ) => how' \in {"exit", "goodbye"}
      ]_vars

\* an explanation asked by number, the call of the model failed: the error
\* is printed and the session is at the menu
C12_Witness ==
    /\ pc = "menu"
    /\ outcome.printed = "error"
    /\ questions_data # <<>>
    /\ outfile = NoOutput

\* C16: an interrupt during a read of the session ends it on the goodbye
\* path: no KeyboardInterrupt leaves main unhandled.
C16_InterruptExitsCleanly ==
    interrupted_at # "" => (pc = "ended" /\ how = "goodbye")

\* the option text a letter of a presented question stands for
TextOfLetter(p, l) ==
    p.labeled_options[CHOOSE i \in 1..Len(p.labeled_options) : Letters[i] = l]

\* C14: whatever the permutation, the correct letters of the presented
\* question, mapped back to the texts of their options, are exactly the
\* correct options of the question, and the presented options are the
\* options of the question.
C14_ShuffleKeepsCorrectOptions ==
    pc \in {"awaiting", "grading", "graded"} =>
       LET q == quiz_questions[qn]
       IN  /\ { TextOfLetter(shuffled, l) : l \in shuffled.correct_letters } = Range(q.ANSWERS)
           /\ Len(shuffled.labeled_options) = Len(q.ANSWER_CHOICES)
           /\ Range(shuffled.labeled_options) = Range(q.ANSWER_CHOICES)

\* a question with two distinct correct options among three, presented in
\* another order than the document's
C14_Witness ==
    /\ pc = "awaiting"
    /\ Cardinality(Range(quiz_questions[qn].ANSWERS)) = 2
    /\ Len(shuffled.labeled_options) = 3
    /\ shuffled.labeled_options # quiz_questions[qn].ANSWER_CHOICES
    /\ shuffled.correct_letters = {"B", "C"}

\* the letters of an answer, taken piece by piece: the input is cut at the
\* commas, and each piece loses its spaces and is upper-cased
LettersTyped(input) ==
    LET pieces == SplitFrom(input, << "," >>, 1, 1)
    IN  { upper(SelectSeq(pieces[k], NotSpace)) : k \in 1..Len(pieces) }

\* C15: a multi-answer submission is graded correct iff the set of the
\* letters submitted is the set of the correct letters, whatever their order
\* and repetitions; with the correct letters {A, C} the inputs 'A,C', 'C,A'
\* and 'a, c' are correct and 'A' alone is not; correct_count goes up by one
\* on a correct grade and changes on no other step.
C15_GradingBySetEquality ==
    [][ /\ pc = "grading" =>
             LET cl == shuffled.correct_letters
             IN  /\ graded'.done
                 /\ Cardinality(cl) > 1 =>
                       (graded'.correct <=> LettersTyped(submitted) = { << l >> : l \in cl })
                 /\ (cl = {"A", "C"} /\ submitted \in { << "A", ",", "C" >>, << "C", ",", "A" >>,
                                                        << "a", ",", " ", "c" >> })
                       => graded'.correct
                 /\ (cl = {"A", "C"} /\ submitted = << "A" >>) => ~graded'.correct
                 /\ correct_count' = IF graded'.correct THEN correct_count + 1 ELSE correct_count
        /\ pc # "grading" => correct_count' = correct_count
      ]_vars

\* the answer 'a, c' graded correct for the correct letters {A, C}
C15_Witness ==
    /\ pc = "graded"
    /\ shuffled.correct_letters = {"A", "C"}
    /\ submitted = << "a", ",", " ", "c" >>
    /\ graded.correct
    /\ correct_count = 1

====
